---- MODULE Spec2Model ----
(***************************************************************************)
(* A model of cf-aegis: the Wrangler -> Miniflare configuration compiler   *)
(* (createMiniflareOptions), the asset router workaround                   *)
(* (applyAssetRouterWorkaround) and the aegisSetup / aegisTeardown         *)
(* lifecycle helpers.                                                      *)
(*                                                                         *)
(* JavaScript objects are functions from key strings to values; a key that *)
(* is undefined is a key outside the DOMAIN.  Arrays are sequences.        *)
(***************************************************************************)
EXTENDS Integers, Sequences, FiniteSets, TLC

VARIABLES
    phase,            \* compiler run: "input", "compiled" ("threw" if the
                      \* compiler threw), then either "synthesized" (the
                      \* workaround applied once) and "resynthesized"
                      \* (twice), or "twice" (the compiler called again)
                      \* and "mutated" (the first result written to)
    config,           \* the descriptor handed to createMiniflareOptions
    workerMocks,      \* the mock registry handed to createMiniflareOptions
    miniflareOptions, \* the configuration returned by createMiniflareOptions
    other,            \* the configuration a second call returned
    staticValue,      \* the object the module holds as the staticValue of
                      \* the queues.consumers rule
    exchange,         \* the request served by the configured workers, if any:
                      \* the worker calls it caused and the response returned
    cwd,              \* process.cwd(): the working directory of the process
    pc,               \* per caller: where its aegisSetup/aegisTeardown call is
    ctx,              \* per caller: the Aegis context object it passes in
    frame,            \* per caller: the locals of its suspended call
    live,             \* Miniflare instances created and not yet disposed
    nextId,           \* number of Miniflare instances created so far
    made,             \* per Miniflare instance, in order of creation: the
                      \* caller that made it and the dispose() calls on it
    hist,             \* per caller: outcomes of its completed calls, in order
    entryKeys,        \* per caller: keys of ctx at entry of its last aegisSetup
    inflight,         \* callers suspended in a path-based aegisSetup, by start
    overlapped,       \* TRUE once a path-based aegisSetup began during another
    nested,           \* FALSE once such calls returned out of stack order
    lastOptions,      \* per caller: the options its latest aegisSetup gave to
                      \* the Miniflare constructor
    fetched           \* what the last step did, if it was a ctx.fetch call

vars == <<phase, config, workerMocks, miniflareOptions, other, staticValue,
          exchange, cwd, pc, ctx, frame,
          live, nextId, made, hist, entryKeys, inflight, overlapped, nested,
          lastOptions, fetched>>

compilerVars == <<phase, config, workerMocks, miniflareOptions, other,
                  staticValue, exchange>>
lifecycleVars == <<pc, ctx, frame, live, nextId, made, hist, entryKeys, inflight,
                   overlapped, nested, lastOptions, fetched>>

-----------------------------------------------------------------------------
(* Bounds of the model.                                                    *)

MaxKeys == 2        \* descriptor keys (and mock registry) present at once
MaxItems == 2       \* entries of one binding array of the descriptor
MaxServices == 2    \* entries of the services array
MaxCalls == 3       \* aegisSetup/aegisTeardown calls made in one run

-----------------------------------------------------------------------------
(* JavaScript objects.                                                     *)

EmptyObj == <<>>
Null == [null |-> TRUE]       \* the value null
Has(o, k) == k \in DOMAIN o
Put(o, k, v) == (k :> v) @@ o
Del(o, k) == [x \in DOMAIN o \ {k} |-> o[x]]
Range(s) == {s[i] : i \in DOMAIN s}

\* A variant in which the first entry of a key is kept.
RECURSIVE FromEntries_FirstWins(_)
FromEntries_FirstWins(entries) ==
    IF entries = <<>> THEN EmptyObj
    ELSE Put(FromEntries_FirstWins(Tail(entries)), entries[1][1], entries[1][2])

\* Object.fromEntries(entries): later entries overwrite earlier ones.
RECURSIVE FromEntries(_)
FromEntries(entries) ==
    IF entries = <<>> THEN EmptyObj
    ELSE LET n == Len(entries)
         IN  Put(FromEntries(SubSeq(entries, 1, n - 1)),
                 entries[n][1], entries[n][2])

-----------------------------------------------------------------------------
(* Paths (node's path module).  A path is its absoluteness and segments.   *)

Path(abs, segs) == [abs |-> abs, segs |-> segs]
Dot == Path(FALSE, <<>>)

\* path.dirname(p); the dirname of a bare file name is "."
PathDirname(p) ==
    IF p.segs = <<>> THEN p
    ELSE Path(p.abs, SubSeq(p.segs, 1, Len(p.segs) - 1))

\* path.basename(p)
PathBasename(p) == p.segs[Len(p.segs)]

\* path.resolve(a, b): right to left until absolute, then against cwd
PathResolve(a, b) ==
    IF b.abs THEN b
    ELSE IF a.abs THEN Path(TRUE, a.segs \o b.segs)
    ELSE Path(TRUE, cwd.segs \o a.segs \o b.segs)

-----------------------------------------------------------------------------
(* The rule tables of the compiler.                                        *)

keyMappings ==
    << [source |-> "main", target |-> "scriptPath"],
       [source |-> "compatibility_date", target |-> "compatibilityDate"],
       [source |-> "compatibility_flags", target |-> "compatibilityFlags"] >>

arrayMappings ==
    << [source |-> "kv_namespaces", target |-> "kvNamespaces"],
       [source |-> "r2_buckets", target |-> "r2Buckets"] >>

\* A rule with a staticValue has no value field and vice versa.  The
\* staticValue of the consumers rule is one object, made when the module
\* is loaded; it is {} until something writes to it.
objectMappings ==
    << [source |-> <<"queues", "producers">>, target |-> "queueProducers",
        key |-> "binding", value |-> "queue"],
       [source |-> <<"queues", "consumers">>, target |-> "queueConsumers",
        key |-> "queue", staticValue |-> staticValue],
       [source |-> <<"d1_databases">>, target |-> "d1Databases",
        key |-> "binding", value |-> "database_id"],
       [source |-> <<"durable_objects", "bindings">>, target |-> "durableObjects",
        key |-> "name", value |-> "class_name"] >>

-----------------------------------------------------------------------------
(* Worker scripts.  A script is source text; the model keeps the template  *)
(* it was made from and the parameter substituted into it.                 *)

\* The default stub of an unmocked service; its text embeds the service name.
\* Its handler returns new Response(..., { status: 404 }) for every request.
DefaultStubScript(serviceName) ==
    [template |-> "stub", arg |-> serviceName, status |-> 404]
storeScript == [template |-> "store", arg |-> ""]
routerScript == [template |-> "router", arg |-> ""]
NoopScript == [template |-> "noop", arg |-> ""]     \* 'export default {}'

-----------------------------------------------------------------------------
(* createMiniflareOptions                                                  *)

Undefined == [defined |-> FALSE]
Some(v) == [defined |-> TRUE, value |-> v]

\* path.split('.').reduce((obj, key) => obj && obj[key], config)
RECURSIVE getSourceArray(_, _)
getSourceArray(cfg, path) ==
    IF path = <<>> THEN Some(cfg)
    ELSE LET obj == getSourceArray(cfg, SubSeq(path, 1, Len(path) - 1))
             key == path[Len(path)]
         IN  IF ~obj.defined THEN obj
             ELSE IF Has(obj.value, key) THEN Some(obj.value[key])
             ELSE Undefined

\* const { binding, directory } = config.assets
AssetsOf(cfg) ==
    [k \in DOMAIN cfg.assets \cap {"binding", "directory"} |-> cfg.assets[k]]

RECURSIVE ApplyKeyMappings(_, _, _)
ApplyKeyMappings(w, cfg, i) ==
    IF i > Len(keyMappings) THEN w
    ELSE LET mapping == keyMappings[i]
         IN  ApplyKeyMappings(
                 IF Has(cfg, mapping.source)
                 THEN Put(w, mapping.target, cfg[mapping.source])
                 ELSE w,
                 cfg, i + 1)

\* An array, even an empty one, is truthy.
RECURSIVE ApplyArrayMappings(_, _, _)
ApplyArrayMappings(w, cfg, i) ==
    IF i > Len(arrayMappings) THEN w
    ELSE LET mapping == arrayMappings[i]
         IN  ApplyArrayMappings(
                 IF Has(cfg, mapping.source)
                 THEN Put(w, mapping.target,
                          [j \in 1..Len(cfg[mapping.source]) |->
                               cfg[mapping.source][j].binding])
                 ELSE w,
                 cfg, i + 1)

\* The object an entry's value is: mapping.staticValue ?? ... evaluates to
\* the rule's own staticValue object, not to a copy of it; the other rules
\* yield strings of the item.
EntryRef(mapping) ==
    IF Has(mapping, "staticValue") THEN "staticValue" ELSE "primitive"

\* [item[mapping.key], mapping.staticValue ?? item[mapping.value]]
MappingEntry(mapping, item) ==
    << item[mapping.key],
       IF Has(mapping, "staticValue") THEN mapping.staticValue
       ELSE item[mapping.value] >>

RECURSIVE ApplyObjectMappings(_, _, _)
ApplyObjectMappings(w, cfg, i) ==
    IF i > Len(objectMappings) THEN w
    ELSE LET mapping == objectMappings[i]
             sourceArray == getSourceArray(cfg, mapping.source)
         IN  ApplyObjectMappings(
                 IF sourceArray.defined
                 THEN Put(w, mapping.target,
                          FromEntries([j \in 1..Len(sourceArray.value) |->
                                          MappingEntry(mapping, sourceArray.value[j])]))
                 ELSE w,
                 cfg, i + 1)

\* A variant that never consults the mock registry.
MockWorker_IgnoreMocks(service, mocks) ==
    [name |-> service.service, modules |-> TRUE,
     script |-> DefaultStubScript(service.service)]

\* The worker made for one entry of config.services.
MockWorker(service, mocks) ==
    LET serviceName == service.service
    IN  IF Has(mocks, serviceName)
        THEN mocks[serviceName] @@ [name |-> serviceName, modules |-> TRUE]
        ELSE [name |-> serviceName, modules |-> TRUE,
              script |-> DefaultStubScript(serviceName)]

\* The workers made for config.services: config.services.map(...)
MockWorkers(services, mocks) ==
    [i \in 1..Len(services) |-> MockWorker(services[i], mocks)]

\* A variant in which the first entry of a binding name wins.
RECURSIVE MainServiceBindings_FirstWins(_)
MainServiceBindings_FirstWins(services) ==
    IF services = <<>> THEN EmptyObj
    ELSE Put(MainServiceBindings_FirstWins(Tail(services)),
             services[1].binding, services[1].service)

\* Object.fromEntries(config.services.map(s => [s.binding, s.service]))
MainServiceBindings(services) ==
    FromEntries([i \in 1..Len(services) |->
                    <<services[i].binding, services[i].service>>])

\* A variant that also lists the KV namespaces among the bindings.
MainBindings_WithKv(cfg) ==
    (IF Has(cfg, "vars") THEN cfg.vars ELSE EmptyObj) @@
    (IF Has(cfg, "kv_namespaces")
     THEN [b \in {cfg.kv_namespaces[j].binding : j \in DOMAIN cfg.kv_namespaces} |-> b]
     ELSE EmptyObj)

\* bindings: {} at first; then, if config.vars is defined, { ...config.vars }
MainBindings(cfg) == IF Has(cfg, "vars") THEN cfg.vars ELSE EmptyObj

\* The object mainWorker.bindings refers to: in either case an object
\* literal evaluated by the function, never the object config.vars itself.
BindingsRef(cfg) == IF Has(cfg, "vars") THEN "spread copy" ELSE "literal"

\* mainWorker as it stands when the function returns
MainWorkerOf(cfg) ==
    LET w0 == [name |-> "main", modules |-> TRUE, bindings |-> EmptyObj]
        w1 == Put(w0, "bindings", MainBindings(cfg))
        w2 == IF Has(cfg, "assets") THEN Put(w1, "assets", AssetsOf(cfg)) ELSE w1
        w3 == ApplyKeyMappings(w2, cfg, 1)
        w4 == ApplyArrayMappings(w3, cfg, 1)
        w5 == ApplyObjectMappings(w4, cfg, 1)
    IN  IF Has(cfg, "services")
        THEN Put(w5, "serviceBindings", MainServiceBindings(cfg.services))
        ELSE w5

\* A variant that ignores dev.hostname.
DevHost_AlwaysDefault(dev) == "127.0.0.1"

\* config.dev.hostname || '127.0.0.1': the empty string is falsy
DevHost(dev) ==
    IF Has(dev, "hostname") /\ dev.hostname # "" THEN dev.hostname
    ELSE "127.0.0.1"

\* A variant that back-fills the main worker's script in the compiler.
createMiniflareOptions_StubMain(cfg, mocks) ==
    LET main == MainWorkerOf(cfg)
        workers == <<IF Has(main, "scriptPath") THEN main
                     ELSE Put(main, "script", NoopScript)>> \o
                   (IF Has(cfg, "services")
                    THEN MockWorkers(cfg.services, mocks) ELSE <<>>)
        options == [workers |-> workers]
    IN  IF Has(cfg, "dev") /\ Has(cfg.dev, "port")
        THEN Put(Put(options, "host", DevHost(cfg.dev)), "port", cfg.dev.port)
        ELSE options

createMiniflareOptions(cfg, mocks) ==
    LET workers == <<MainWorkerOf(cfg)>> \o
                   (IF Has(cfg, "services")
                    THEN MockWorkers(cfg.services, mocks) ELSE <<>>)
        options == [workers |-> workers]
    IN  IF Has(cfg, "dev") /\ Has(cfg.dev, "port")
        THEN Put(Put(options, "host", DevHost(cfg.dev)), "port", cfg.dev.port)
        ELSE options

\* A variant that reads config.queues.producers and config.queues.consumers
\* without testing the segments of the path.
CompileThrows_UnsafePath(cfg) ==
    \/ Has(cfg, "assets") /\ cfg.assets = Null
    \/ ~Has(cfg, "queues")
    \/ ~Has(cfg.queues, "producers")
    \/ ~Has(cfg.queues, "consumers")

\* createMiniflareOptions(config) throws a TypeError: config.assets is
\* null, which passes !== undefined and cannot be destructured.  Every
\* other read of the descriptor is guarded: !== undefined, a truthiness
\* test, obj && obj[key], or ?. .
CompileThrows(cfg) == Has(cfg, "assets") /\ cfg.assets = Null

\* A variant that takes the assets key out of the descriptor it was given.
InputsAfter_DeleteAssets(cfg, mocks) ==
    [config |-> Del(cfg, "assets"), mocks |-> mocks]

\* The inputs as the call leaves them: no statement of the function
\* assigns to or deletes from config, workerMocks or an object inside them.
InputsAfter(cfg, mocks) == [config |-> cfg, mocks |-> mocks]

-----------------------------------------------------------------------------
(* applyAssetRouterWorkaround                                              *)

routerName == "asset-router"
storeName == "asset-store"

\* A variant that points the asset binding at the router.
BindAssets_ToRouter(mainWorker, assetConfig) ==
    IF Has(assetConfig, "binding")
    THEN Put(mainWorker, "serviceBindings",
             Put(IF Has(mainWorker, "serviceBindings")
                 THEN mainWorker.serviceBindings ELSE EmptyObj,
                 assetConfig.binding, routerName))
    ELSE mainWorker

\* if (assetConfig.binding !== undefined)
\*     mainWorker.serviceBindings[assetConfig.binding] = storeName
BindAssets(mainWorker, assetConfig) ==
    IF Has(assetConfig, "binding")
    THEN Put(mainWorker, "serviceBindings",
             Put(IF Has(mainWorker, "serviceBindings")
                 THEN mainWorker.serviceBindings ELSE EmptyObj,
                 assetConfig.binding, storeName))
    ELSE mainWorker

\* A variant in which the router's USER_WORKER is the router itself.
RouterBindings_Self(mainWorker) ==
    [USER_WORKER |-> routerName, ASSET_STORE |-> storeName]

\* serviceBindings: { USER_WORKER: mainWorker.name, ASSET_STORE: storeName }
RouterBindings(mainWorker) ==
    [USER_WORKER |-> mainWorker.name, ASSET_STORE |-> storeName]

\* A variant that mirrors the two settings only when both are set.
Mirror_Together(worker, mainWorker) ==
    IF Has(mainWorker, "compatibilityDate") /\ Has(mainWorker, "compatibilityFlags")
    THEN Put(Put(worker, "compatibilityDate", mainWorker.compatibilityDate),
             "compatibilityFlags", mainWorker.compatibilityFlags)
    ELSE worker

\* if (mainWorker.compatibilityDate !== undefined) { ... }
\* if (mainWorker.compatibilityFlags !== undefined) { ... }
\* as it acts on one of the two synthetic workers
Mirror(worker, mainWorker) ==
    LET dated == IF Has(mainWorker, "compatibilityDate")
                 THEN Put(worker, "compatibilityDate", mainWorker.compatibilityDate)
                 ELSE worker
    IN  IF Has(mainWorker, "compatibilityFlags")
        THEN Put(dated, "compatibilityFlags", mainWorker.compatibilityFlags)
        ELSE dated

\* The three workers the call builds from a main worker that has assets:
\* the router, the store and the main worker as the call leaves it.
SynthesizedWorkers(mainWorker) ==
        LET assetConfig == mainWorker.assets
            main1 == Del(mainWorker, "assets")
            baseScriptPath ==
                IF Has(main1, "scriptPath") THEN PathDirname(main1.scriptPath)
                ELSE PathResolve(Dot, Dot)
            storeScriptPath ==
                PathResolve(baseScriptPath, Path(FALSE, <<"asset-store-workaround.js">>))
            routerScriptPath ==
                PathResolve(baseScriptPath, Path(FALSE, <<"asset-router-workaround.js">>))
            store0 == [name |-> storeName, modules |-> TRUE,
                       script |-> storeScript, scriptPath |-> storeScriptPath]
            store1 == IF Has(assetConfig, "directory")
                      THEN Put(store0, "sitePath", assetConfig.directory)
                      ELSE store0
            router1 == [name |-> routerName, modules |-> TRUE,
                        script |-> routerScript, scriptPath |-> routerScriptPath,
                        serviceBindings |-> RouterBindings(main1)]
            storeWorker == Mirror(store1, main1)
            routerWorker == Mirror(router1, main1)
            main2 == BindAssets(main1, assetConfig)
        IN  [router |-> routerWorker, store |-> storeWorker, main |-> main2]

\* A variant that inserts the router but not the store.
applyAssetRouterWorkaround_NoStore(workers) ==
    LET mainWorker == workers[1]
    IN  IF ~Has(mainWorker, "assets") THEN workers
        ELSE LET s == SynthesizedWorkers(mainWorker)
             IN  <<s.router, s.main>> \o Tail(workers)

\* A variant without the early return: a main worker without assets is
\* treated as one with an empty asset config.
applyAssetRouterWorkaround_NoEarlyReturn(workers) ==
    LET mainWorker == workers[1]
        s == SynthesizedWorkers(IF Has(mainWorker, "assets") THEN mainWorker
                                ELSE Put(mainWorker, "assets", EmptyObj))
    IN  <<s.router, s.store, s.main>> \o Tail(workers)

\* A variant that unshifts the router before the store.
applyAssetRouterWorkaround_StoreFirst(workers) ==
    LET mainWorker == workers[1]
    IN  IF ~Has(mainWorker, "assets") THEN workers
        ELSE LET s == SynthesizedWorkers(mainWorker)
             IN  <<s.store, s.router, s.main>> \o Tail(workers)

\* A variant that starts the primary worker's serviceBindings afresh, so
\* that the asset binding is the only entry left.
applyAssetRouterWorkaround_FreshBindings(workers) ==
    LET mainWorker == workers[1]
    IN  IF ~Has(mainWorker, "assets") THEN workers
        ELSE LET s == SynthesizedWorkers(Del(mainWorker, "serviceBindings"))
             IN  <<s.router, s.store, s.main>> \o Tail(workers)

\* The worker list after the call; the call mutates the array in place:
\* workers.unshift(storeWorker), then workers.unshift(routerWorker).
applyAssetRouterWorkaround(workers) ==
    LET mainWorker == workers[1]
    IN  IF ~Has(mainWorker, "assets") THEN workers
        ELSE LET s == SynthesizedWorkers(mainWorker)
             IN  <<s.router, s.store, s.main>> \o Tail(workers)

-----------------------------------------------------------------------------
(* The worker scripts at run time: what each answers to a request.         *)

\* The script of the user's worker and the script file of a mock.
MainPath == Path(FALSE, <<"src", "index.js">>)
MockPath == Path(FALSE, <<"mocks", "auth.js">>)

\* The files of the asset directory, as keys of __STATIC_CONTENT_MANIFEST
Manifest == {"both.txt", "asset.txt", "docs/index.html", "index.html", "gone.txt"}

\* manifest = JSON.parse(manifestJSON): file paths to storage keys
manifest == [p \in Manifest |-> "$" \o p]

\* env.__STATIC_CONTENT, the store the keys lead into: get(key) is null for
\* a key it holds no value for, here the key of gone.txt.
StaticContent ==
    [k \in {manifest[p] : p \in Manifest \ {"gone.txt"}} |-> "content of " \o k]

\* String.prototype.endsWith, for a one-character suffix
EndsWith(path, suffix) ==
    Len(path) >= 1 /\ SubSeq(path, Len(path), Len(path)) = suffix

\* The routes the user's worker script answers; anything else is its 404.
Routes == {"both.txt", "route"}

\* Request paths, without the leading slash (the store slices it off).
RequestPaths ==
    {"both.txt", "asset.txt", "route", "neither", "docs", "docs/", "", "gone.txt"}
Requests == {[path |-> p, method |-> "GET"] : p \in RequestPaths}

Response(status, by) == [status |-> status, by |-> by]

\* A variant of the store that answers from the manifest alone.
StoreFetch_ManifestOnly(worker, request) ==
    LET path == request.path
        assetPath == IF Has(manifest, path) THEN path
                     ELSE IF EndsWith(path, "/") \/ path = ""
                     THEN path \o "index.html"
                     ELSE path \o "/index.html"
    IN  IF Has(worker, "sitePath") /\ Has(manifest, assetPath)
        THEN [status |-> 200, by |-> worker.name,
              body |-> IF Has(StaticContent, manifest[assetPath])
                       THEN StaticContent[manifest[assetPath]] ELSE ""]
        ELSE Response(404, worker.name)

\* fetch of storeScript: key = manifest[path]; if that is undefined, the
\* index file of the folder; if a key was found and the store holds a body
\* for it, new Response(body, ...), else
\* new Response("Not Found", { status: 404 })
StoreFetch(worker, request) ==
    LET path == request.path
        assetPath == IF Has(manifest, path) THEN path
                     ELSE IF EndsWith(path, "/") \/ path = ""
                     THEN path \o "index.html"
                     ELSE path \o "/index.html"
    IN  IF /\ Has(worker, "sitePath")
           /\ Has(manifest, assetPath)
           /\ Has(StaticContent, manifest[assetPath])
        THEN [status |-> 200, by |-> worker.name,
              body |-> StaticContent[manifest[assetPath]]]
        ELSE Response(404, worker.name)

\* What a worker other than the router answers, by the script it runs.
WorkerFetch(worker, request) ==
    IF Has(worker, "script")
    THEN CASE worker.script.template = "store" -> StoreFetch(worker, request)
           [] worker.script.template \in {"stub", "mock"} ->
                  Response(worker.script.status, worker.name)
           [] OTHER -> Response(500, worker.name)
    ELSE IF Has(worker, "scriptPath")
    THEN IF worker.scriptPath = MainPath
         THEN Response(IF request.path \in Routes THEN 200 ELSE 404, worker.name)
         ELSE Response(200, worker.name)
    ELSE Response(500, worker.name)

\* The workers a service binding to `name` can reach.
Resolve(workers, name) == {i \in DOMAIN workers : workers[i].name = name}

Call(worker, request) ==
    [worker |-> worker.name, request |-> request,
     response |-> WorkerFetch(worker, request)]

\* A variant of the router that asks the user worker first.
RouterFetch_WorkerFirst(router, store, user, request) ==
    LET first == WorkerFetch(user, request)
    IN  [request |-> request,
         calls |-> <<[worker |-> router.name, request |-> request],
                     Call(user, request)>> \o
                   (IF first.status = 404 THEN <<Call(store, request)>> ELSE <<>>),
         response |-> IF first.status = 404 THEN WorkerFetch(store, request)
                      ELSE first]

\* fetch of routerScript: response = await env.ASSET_STORE.fetch(request);
\* if (response.status === 404) return env.USER_WORKER.fetch(request);
\* return response
RouterFetch(router, store, user, request) ==
    LET response == WorkerFetch(store, request)
    IN  [request |-> request,
         calls |-> <<[worker |-> router.name, request |-> request],
                     Call(store, request)>> \o
                   (IF response.status = 404 THEN <<Call(user, request)>> ELSE <<>>),
         response |-> IF response.status = 404 THEN WorkerFetch(user, request)
                      ELSE response]

-----------------------------------------------------------------------------
(* The inputs of the compiler: descriptors and mock registries.            *)

SeqsUpTo(S, n) == UNION {[1..k -> S] : k \in 0..n}

KvItems == {[binding |-> "KV", id |-> "i"], [binding |-> "KV2", id |-> "i"]}
R2Items == {[binding |-> "R2", bucket_name |-> "b"]}
D1Items == {[binding |-> "DB", database_id |-> "d1"],
            [binding |-> "DB", database_id |-> "d2"]}
DoItems == {[name |-> "DO", class_name |-> "Counter"],
            [name |-> "DO", class_name |-> "Other"]}
ProducerItems == {[binding |-> "Q", queue |-> "q1"], [binding |-> "Q", queue |-> "q2"]}
ConsumerItems == {[queue |-> "q1"]}
ServiceItems == {[binding |-> "A", service |-> "svc1"],
                 [binding |-> "B", service |-> "svc1"],
                 [binding |-> "A", service |-> "svc2"],
                 [binding |-> "A", service |-> storeName]}

\* A script a caller supplies for a service; it answers 200.
MockScript(id) == [template |-> "mock", arg |-> id, status |-> 200]

MockRegistries ==
    { [svc1 |-> [script |-> MockScript("one")]],
      [svc1 |-> [scriptPath |-> MockPath]],
      [svc1 |-> [script |-> MockScript("one")], svc2 |-> [script |-> MockScript("two")]] }

\* The input fields a run may set; the dotted ones are nested.
Fields == {"name", "main", "compatibility_date", "compatibility_flags", "vars",
           "assets", "kv_namespaces", "r2_buckets", "d1_databases",
           "durable_objects", "queues.producers", "queues.consumers",
           "services", "dev.port", "dev.hostname", "mocks"}

FieldValues(f) ==
    CASE f = "name" -> {"aegis-test"}
      [] f = "main" -> {MainPath}
      [] f = "compatibility_date" -> {"2025-01-01"}
      [] f = "compatibility_flags" -> {<<"flag1", "flag2">>}
      [] f = "vars" -> {[API_KEY |-> "x"]}
      [] f = "assets" -> {[directory |-> "./d"],
                          [binding |-> "ASSETS", directory |-> "./d"],
                          [binding |-> "A", directory |-> "./d"]}
      [] f = "kv_namespaces" -> SeqsUpTo(KvItems, MaxItems)
      [] f = "r2_buckets" -> SeqsUpTo(R2Items, MaxItems)
      [] f = "d1_databases" -> SeqsUpTo(D1Items, MaxItems)
      [] f = "durable_objects" ->
             {EmptyObj} \cup {[bindings |-> b] : b \in SeqsUpTo(DoItems, MaxItems)}
      [] f = "queues.producers" -> SeqsUpTo(ProducerItems, MaxItems)
      [] f = "queues.consumers" -> SeqsUpTo(ConsumerItems, MaxItems)
      [] f = "services" -> SeqsUpTo(ServiceItems, MaxServices)
      [] f = "dev.port" -> {8787}
      [] f = "dev.hostname" -> {"0.0.0.0", ""}
      [] f = "mocks" -> MockRegistries

Nested(cfg, outer, inner, v) ==
    Put(cfg, outer, Put(IF Has(cfg, outer) THEN cfg[outer] ELSE EmptyObj, inner, v))

SetField(in, f, v) ==
    CASE f = "mocks" -> [in EXCEPT !.mocks = v]
      [] f = "queues.producers" ->
             [in EXCEPT !.config = Nested(in.config, "queues", "producers", v)]
      [] f = "queues.consumers" ->
             [in EXCEPT !.config = Nested(in.config, "queues", "consumers", v)]
      [] f = "dev.port" -> [in EXCEPT !.config = Nested(in.config, "dev", "port", v)]
      [] f = "dev.hostname" ->
             [in EXCEPT !.config = Nested(in.config, "dev", "hostname", v)]
      [] OTHER -> [in EXCEPT !.config = Put(in.config, f, v)]

\* Every input that sets exactly the fields S.
RECURSIVE Assign(_)
Assign(S) ==
    IF S = {} THEN {[config |-> EmptyObj, mocks |-> EmptyObj]}
    ELSE LET f == CHOOSE g \in S : TRUE
         IN  {SetField(in, f, v) : in \in Assign(S \ {f}), v \in FieldValues(f)}

\* An input sets at most MaxKeys of the fields.
FieldSets == {S \in SUBSET Fields : Cardinality(S) <= MaxKeys}

-----------------------------------------------------------------------------
(* The compiler run: compile a descriptor, then apply the workaround.      *)

InitCwd == Path(TRUE, <<"proj">>)
Callers == {"t1", "t2"}

\* The context each caller owns: t1 starts from {}, t2 from an object that
\* already carries a key of its own.
InitCtx == [t \in Callers |-> IF t = "t1" THEN EmptyObj ELSE [db |-> "handle"]]

LifecycleIdle ==
    /\ pc = [t \in Callers |-> "idle"]
    /\ ctx = InitCtx
    /\ frame = [t \in Callers |-> EmptyObj]
    /\ live = {}
    /\ nextId = 0
    /\ made = <<>>
    /\ hist = [t \in Callers |-> <<>>]
    /\ entryKeys = [t \in Callers |-> {}]
    /\ inflight = <<>>
    /\ overlapped = FALSE
    /\ nested = TRUE
    /\ lastOptions = [t \in Callers |-> EmptyObj]
    /\ fetched = EmptyObj

CompileInit ==
    /\ phase = "input"
    /\ \E S \in FieldSets :
           \E in \in Assign(S) : config = in.config /\ workerMocks = in.mocks
    /\ miniflareOptions = EmptyObj
    /\ other = EmptyObj
    /\ staticValue = EmptyObj
    /\ exchange = EmptyObj
    /\ cwd = InitCwd
    /\ LifecycleIdle

Compile ==
    /\ phase = "input"
    /\ IF CompileThrows(config)
       THEN phase' = "threw" /\ UNCHANGED <<miniflareOptions, config, workerMocks>>
       ELSE /\ miniflareOptions' = createMiniflareOptions(config, workerMocks)
            /\ config' = InputsAfter(config, workerMocks).config
            /\ workerMocks' = InputsAfter(config, workerMocks).mocks
            /\ phase' = "compiled"
    /\ UNCHANGED <<other, staticValue, exchange, cwd, lifecycleVars>>

\* A second call of createMiniflareOptions with the inputs of the first.
SecondCall ==
    /\ phase = "compiled"
    /\ other' = createMiniflareOptions(config, workerMocks)
    /\ config' = InputsAfter(config, workerMocks).config
    /\ workerMocks' = InputsAfter(config, workerMocks).mocks
    /\ phase' = "twice"
    /\ UNCHANGED <<miniflareOptions, staticValue, exchange, cwd, lifecycleVars>>

\* The caller writes a property into one queueConsumers entry of the first
\* result.  The write lands in the object the entry is: when that is the
\* rule's staticValue, every value that is this object shows it.
MutateResult ==
    /\ phase = "twice"
    /\ Has(miniflareOptions.workers[1], "queueConsumers")
    /\ \E q \in DOMAIN miniflareOptions.workers[1].queueConsumers :
         LET written == Put(miniflareOptions.workers[1].queueConsumers[q],
                            "mutated", TRUE)
             Shown(options) ==
                 [options EXCEPT !.workers[1].queueConsumers =
                                     [k \in DOMAIN @ |-> written]]
         IN  IF EntryRef(objectMappings[2]) = "staticValue"
             THEN /\ staticValue' = written
                  /\ miniflareOptions' = Shown(miniflareOptions)
                  /\ other' = Shown(other)
             ELSE /\ miniflareOptions' =
                         [miniflareOptions EXCEPT
                              !.workers[1].queueConsumers[q] = written]
                  /\ UNCHANGED <<other, staticValue>>
    /\ phase' = "mutated"
    /\ UNCHANGED <<config, workerMocks, exchange, cwd, lifecycleVars>>

\* One call of applyAssetRouterWorkaround(miniflareOptions.workers); a run
\* makes the call up to twice.
Synthesize ==
    /\ phase \in {"compiled", "synthesized"}
    /\ exchange = EmptyObj
    /\ miniflareOptions' =
           [miniflareOptions EXCEPT !.workers = applyAssetRouterWorkaround(@)]
    /\ phase' = IF phase = "compiled" THEN "synthesized" ELSE "resynthesized"
    /\ UNCHANGED <<config, workerMocks, other, staticValue, exchange, cwd,
                   lifecycleVars>>

\* One inbound request served by the synthesized topology.  The first
\* worker of the list, the router, is the one that gets the requests; a
\* service binding reaches a worker of the bound name.
Dispatch ==
    /\ phase = "synthesized"
    /\ exchange = EmptyObj
    /\ LET workers == miniflareOptions.workers
           entry == workers[1]
       IN  /\ Has(entry, "script")
           /\ entry.script = routerScript
           /\ \E request \in Requests :
              \E si \in Resolve(workers, entry.serviceBindings.ASSET_STORE) :
              \E ui \in Resolve(workers, entry.serviceBindings.USER_WORKER) :
                  exchange' = RouterFetch(entry, workers[si], workers[ui], request)
    /\ UNCHANGED <<phase, config, workerMocks, miniflareOptions, other, staticValue,
                   cwd, lifecycleVars>>

CompileNext == Compile \/ SecondCall \/ MutateResult \/ Synthesize \/ Dispatch

CompileSpec == CompileInit /\ [][CompileNext]_vars

-----------------------------------------------------------------------------
(* The file system the callers run in, and loadWranglerConfig.             *)

Dirs == {<<"proj">>, <<"proj", "worker">>}

WranglerConfig ==
    [name |-> "aegis-test", main |-> MainPath, vars |-> [API_KEY |-> "x"],
     dev |-> [port |-> 8787]]
RootConfig ==
    [name |-> "aegis-test", main |-> Null,
     kv_namespaces |-> <<[binding |-> "KV", id |-> "i"]>>]

\* The files on disk: whether the text parses, and what it parses to.
Files ==
    (<<"proj", "worker", "wrangler.toml">> :> [parses |-> TRUE, value |-> WranglerConfig]) @@
    (<<"proj", "worker", "wrangler.yaml">> :> [parses |-> TRUE, value |-> WranglerConfig]) @@
    (<<"proj", "worker", "broken.toml">> :> [parses |-> FALSE, value |-> EmptyObj]) @@
    (<<"proj", "wrangler.jsonc">> :> [parses |-> TRUE, value |-> RootConfig])

\* path.extname(filename), for the file names in use
ExtName(filename) ==
    CASE filename \in {"wrangler.toml", "broken.toml", "absent.toml"} -> ".toml"
      [] filename = "wrangler.jsonc" -> ".jsonc"
      [] filename = "wrangler.yaml" -> ".yaml"

\* loadWranglerConfig(filename), called while the working directory is dir:
\* the file is read first, then the extension picks the parser.
loadWranglerConfig(filename, dir) ==
    LET extension == ExtName(filename)
        file == dir.segs \o <<filename>>
    IN  IF file \notin DOMAIN Files THEN [err |-> "read", value |-> EmptyObj]
        ELSE IF extension \in {".toml", ".jsonc"}
        THEN IF Files[file].parses
             THEN [err |-> "none", value |-> Files[file].value]
             ELSE [err |-> "parse", value |-> EmptyObj]
        ELSE [err |-> "extension", value |-> EmptyObj]

-----------------------------------------------------------------------------
(* aegisSetup and aegisTeardown.  A call runs to its await in one step and *)
(* from the await to its return in a second step.                          *)

\* The inputConfig values callers pass: objects (undefined becomes {}) ...
ObjectConfigs ==
    {EmptyObj, [dev |-> [port |-> 8787, hostname |-> "0.0.0.0"]], [assets |-> Null]}
\* ... and paths of configuration files
ConfigPaths ==
    { Path(TRUE, <<"proj", "worker", "wrangler.toml">>),
      Path(FALSE, <<"wrangler.jsonc">>),
      Path(FALSE, <<"worker", "wrangler.yaml">>),
      Path(FALSE, <<"worker", "broken.toml">>),
      Path(FALSE, <<"missing", "wrangler.toml">>) }

\* What each caller passes.  t1 passes any of the above; t2, the caller
\* whose calls run beside those of t1, passes no descriptor, the worker's
\* descriptor file or a descriptor file that does not parse.
ObjectConfigsOf(t) == IF t = "t1" THEN ObjectConfigs ELSE {EmptyObj}
ConfigPathsOf(t) ==
    IF t = "t1" THEN ConfigPaths
    ELSE { Path(TRUE, <<"proj", "worker", "wrangler.toml">>),
           Path(FALSE, <<"worker", "broken.toml">>) }

\* A run is followed up to its first ctx.fetch call: that call changes
\* nothing of the program's state, so the calls that can follow it are the
\* calls that can follow the state before it.
NoFetchYet == fetched = EmptyObj

\* Calls begun so far, finished or not.
Calls ==
    Len(hist["t1"]) + Len(hist["t2"]) + Cardinality({t \in Callers : pc[t] # "idle"})

\* process.chdir(dir): the directory it would enter
ChdirTarget(dir) == IF dir.abs THEN dir ELSE Path(TRUE, cwd.segs \o dir.segs)

\* `http://${miniflareOptions.host}:${miniflareOptions.port}`
BaseUrl(options) == <<"http://", options.host, ":", options.port>>

\* miniflareOptions.workers.find(w => w.name === 'main'): its index, 0 if none
FindMain(workers) ==
    IF \E i \in DOMAIN workers : workers[i].name = "main"
    THEN CHOOSE i \in DOMAIN workers :
             /\ workers[i].name = "main"
             /\ \A j \in 1..(i - 1) : workers[j].name # "main"
    ELSE 0

\* w[k] === undefined || w[k] === null
Missing(w, k) == ~Has(w, k) \/ w[k] = Null

\* A variant that leaves the main worker as compiled.
BackfillMain_Never(options) == options

\* The options after the main worker's script has been back-filled.
BackfillMain(options) ==
    LET i == FindMain(options.workers)
    IN  IF i # 0 /\ Missing(options.workers[i], "script")
                 /\ Missing(options.workers[i], "scriptPath")
        THEN [options EXCEPT !.workers[i] = Put(@, "script", NoopScript)]
        ELSE options

\* What getBindings('main') resolves to: the bindings of the main worker.
BindingsOf(options) ==
    LET i == FindMain(options.workers)
    IN  IF i = 0 THEN EmptyObj ELSE options.workers[i].bindings

\* originalCwd = process.cwd(), taken before process.chdir()
OriginalCwd(before, after) == before

\* A variant of the finally block that leaves the directory where it is.
FinallyCwd_NoRestore(fr, current) == current

\* The finally block: if (originalCwd !== null) process.chdir(originalCwd)
FinallyCwd(fr, current) ==
    IF Has(fr, "originalCwd") THEN fr.originalCwd ELSE current

\* The keys of an older aegisTeardown, which served a context {worker, db}.
TeardownKeys_Old == {"worker", "db"}

\* The keys aegisTeardown deletes.
TeardownKeys == {"worker", "env", "fetch", "isServerListening", "serverBaseUrl"}

\* The synchronous part of aegisSetup, from entry to the await or the throw.
\* ctorOk: whether new Miniflare(options) returns rather than throws.
SetupSync(t, isString, obj, p, ctorOk) ==
    LET ctx1 == Put(ctx[t], "isServerListening", FALSE)
        target == ChdirTarget(PathDirname(p))
        chdirOk == target.segs \in Dirs
        cwd1 == IF isString /\ chdirOk THEN target ELSE cwd
        fr0 == IF isString THEN [originalCwd |-> OriginalCwd(cwd, cwd1)]
               ELSE EmptyObj
        loaded == IF isString THEN loadWranglerConfig(PathBasename(p), cwd1)
                  ELSE [err |-> "none", value |-> obj]
    IN  IF isString /\ ~chdirOk
        THEN [err |-> "chdir", ctx |-> ctx1, cwd |-> cwd1, frame |-> fr0]
        ELSE IF loaded.err # "none"
        THEN [err |-> loaded.err, ctx |-> ctx1, cwd |-> cwd1, frame |-> fr0]
        ELSE IF CompileThrows(loaded.value)
        THEN [err |-> "compile", ctx |-> ctx1, cwd |-> cwd1, frame |-> fr0]
        ELSE
        LET compiled == createMiniflareOptions(loaded.value, EmptyObj)
            ctx2 == IF Has(compiled, "port")
                    THEN Put(Put(ctx1, "isServerListening", TRUE),
                             "serverBaseUrl", BaseUrl(compiled))
                    ELSE ctx1
            options == BackfillMain(compiled)
        IN  IF ~ctorOk
            THEN [err |-> "ctor", ctx |-> ctx2, cwd |-> cwd1, frame |-> fr0]
            ELSE [err |-> "none", ctx |-> Put(ctx2, "worker", nextId + 1),
                  cwd |-> cwd1,
                  frame |-> Put(Put(Put(fr0, "config", loaded.value),
                                    "options", options),
                                "env", BindingsOf(options))]

\* A variant with a catch block that swallows the error.
Propagate_Swallowed(raised) == "none"

\* try { ... } finally { ... } has no catch: what a step raised is what the
\* call throws.
Propagate(raised) == raised

\* How a call ended: what a step of it raised ("none" if nothing), the error
\* it threw to its caller ("none" if it returned), whether its inputConfig
\* was a path, and ctx.isServerListening as setup left it.
Outcome(op, raised, path, listening) ==
    [op |-> op, raised |-> raised, err |-> Propagate(raised), path |-> path,
     listening |-> listening]

aegisSetupBegin(t, isString, obj, p) ==
    /\ pc[t] = "idle"
    /\ Calls < MaxCalls
    /\ NoFetchYet
    /\ \E ctorOk \in BOOLEAN :
         LET r == SetupSync(t, isString, obj, p, ctorOk)
         IN  /\ entryKeys' = [entryKeys EXCEPT ![t] = DOMAIN ctx[t]]
             /\ ctx' = [ctx EXCEPT ![t] = r.ctx]
             /\ overlapped' = (overlapped \/ (isString /\ inflight # <<>>))
             /\ IF r.err = "none"
                THEN /\ pc' = [pc EXCEPT ![t] = "setupAwait"]
                     /\ frame' = [frame EXCEPT ![t] = r.frame]
                     /\ cwd' = r.cwd
                     /\ live' = live \cup {nextId + 1}
                     /\ nextId' = nextId + 1
                     /\ made' = Append(made, [by |-> t, disposals |-> 0])
                     /\ inflight' = IF isString THEN Append(inflight, t) ELSE inflight
                     /\ lastOptions' = [lastOptions EXCEPT ![t] = r.frame.options]
                     /\ UNCHANGED hist
                ELSE /\ cwd' = FinallyCwd(r.frame, r.cwd)
                     /\ hist' = [hist EXCEPT ![t] = Append(@, Outcome("setup", r.err, isString,
                                                  r.ctx.isServerListening))]
                     /\ UNCHANGED <<pc, frame, live, nextId, made, inflight,
                                    lastOptions>>
    /\ fetched' = EmptyObj
    /\ UNCHANGED <<compilerVars, nested>>

\* The await on getBindings('main') settles; then the rest and the finally.
aegisSetupResume(t) ==
    /\ pc[t] = "setupAwait"
    /\ \E resolved \in BOOLEAN :
         /\ ctx' = [ctx EXCEPT ![t] =
                       IF resolved
                       THEN Put(Put(@, "env", frame[t].env), "fetch", "wrapped fetch")
                       ELSE @]
         /\ hist' = [hist EXCEPT ![t] =
                        Append(@, Outcome("setup",
                                          IF resolved THEN "none" ELSE "bindings",
                                          Has(frame[t], "originalCwd"),
                                          ctx[t].isServerListening))]
    /\ cwd' = FinallyCwd(frame[t], cwd)
    /\ pc' = [pc EXCEPT ![t] = "idle"]
    /\ frame' = [frame EXCEPT ![t] = EmptyObj]
    /\ inflight' = SelectSeq(inflight, LAMBDA u : u # t)
    /\ nested' = (nested /\ (inflight = <<>> \/ ~Has(frame[t], "originalCwd")
                             \/ inflight[Len(inflight)] = t))
    /\ fetched' = EmptyObj
    /\ UNCHANGED <<compilerVars, live, nextId, made, entryKeys, overlapped,
                   lastOptions>>

DeleteKeys(o) == [k \in DOMAIN o \ TeardownKeys |-> o[k]]

\* aegisTeardown up to its await on dispose(), or to its return when the
\* context holds no worker.
aegisTeardown(t) ==
    /\ pc[t] = "idle"
    /\ Calls < MaxCalls
    /\ NoFetchYet
    /\ IF Has(ctx[t], "worker")
       THEN /\ pc' = [pc EXCEPT ![t] = "teardownAwait"]
            /\ made' = [made EXCEPT ![ctx[t].worker].disposals = @ + 1]
            /\ UNCHANGED <<ctx, hist>>
       ELSE /\ ctx' = [ctx EXCEPT ![t] = DeleteKeys(@)]
            /\ hist' = [hist EXCEPT ![t] = Append(@, Outcome("teardown", "none", FALSE, FALSE))]
            /\ UNCHANGED <<pc, made>>
    /\ fetched' = EmptyObj
    /\ UNCHANGED <<compilerVars, cwd, frame, live, nextId, entryKeys, inflight,
                   overlapped, nested, lastOptions>>

\* The await on dispose() settles; the deletes run only if it resolved.
aegisTeardownResume(t) ==
    /\ pc[t] = "teardownAwait"
    /\ \E resolved \in BOOLEAN :
         IF resolved
         THEN /\ live' = live \ {ctx[t].worker}
              /\ ctx' = [ctx EXCEPT ![t] = DeleteKeys(@)]
              /\ hist' = [hist EXCEPT ![t] = Append(@, Outcome("teardown", "none", FALSE, FALSE))]
         ELSE /\ hist' = [hist EXCEPT ![t] = Append(@, Outcome("teardown", "dispose", FALSE, FALSE))]
              /\ UNCHANGED <<live, ctx>>
    /\ pc' = [pc EXCEPT ![t] = "idle"]
    /\ fetched' = EmptyObj
    /\ UNCHANGED <<compilerVars, cwd, frame, nextId, made, entryKeys, inflight,
                   overlapped, nested, lastOptions>>

\* URLs are sequences of pieces of text.  The arguments callers pass to
\* ctx.fetch: a path fragment, a full URL, and a relative path whose text
\* begins with "http".
FetchUrls ==
    { <<"/", "api/thing">>,
      <<"http", "://", "example.com", "/x">>,
      <<"http", "bin/get">> }

\* url.startsWith('http')
StartsWithHttp(url) == url # <<>> /\ url[1] = "http"

\* new URL(url, base).toString() for a base without a path: an absolute URL
\* stands for itself, anything else is resolved against the base.
NewURL(url, base) ==
    IF Len(url) >= 2 /\ url[1] = "http" /\ url[2] = "://" THEN url
    ELSE IF url[1] = "/" THEN base \o url
    ELSE base \o <<"/">> \o url

\* The 503 the wrapper answers with when the server is not listening.
Unavailable == [status |-> 503, statusText |-> "Service Unavailable"]

\* ctx.fetch(url) on the context c: either the fixed response, with nothing
\* sent, or the URL handed to the global fetch.
WrappedFetch(c, url) ==
    IF c.isServerListening = FALSE
    THEN [response |-> Unavailable]
    ELSE [request |-> IF StartsWithHttp(url) THEN url
                      ELSE NewURL(url, c.serverBaseUrl)]

\* A caller calls the ctx.fetch that aegisSetup installed.
ctxFetch(t, url) ==
    /\ pc[t] = "idle"
    /\ Calls < MaxCalls
    /\ Has(ctx[t], "fetch")
    /\ fetched' = [caller |-> t, url |-> url, result |-> WrappedFetch(ctx[t], url)]
    /\ UNCHANGED <<compilerVars, cwd, pc, ctx, frame, live, nextId, made, hist, entryKeys,
                   inflight, overlapped, nested, lastOptions>>

Init ==
    /\ phase = "none"
    /\ config = EmptyObj
    /\ workerMocks = EmptyObj
    /\ miniflareOptions = EmptyObj
    /\ other = EmptyObj
    /\ staticValue = EmptyObj
    /\ exchange = EmptyObj
    /\ cwd = InitCwd
    /\ LifecycleIdle

Next ==
    \E t \in Callers :
        \/ \E obj \in ObjectConfigsOf(t) : aegisSetupBegin(t, FALSE, obj, Dot)
        \/ \E p \in ConfigPathsOf(t) : aegisSetupBegin(t, TRUE, EmptyObj, p)
        \/ aegisSetupResume(t)
        \/ aegisTeardown(t)
        \/ aegisTeardownResume(t)
        \/ \E url \in FetchUrls : ctxFetch(t, url)

Spec == Init /\ [][Next]_vars

-----------------------------------------------------------------------------
(* Properties of the compiler.                                             *)

Compiled == phase = "compiled"
Produced == phase \in {"compiled", "synthesized", "resynthesized"}
Workers == miniflareOptions.workers
WorkerNames(ws) == {ws[i].name : i \in DOMAIN ws}
ServiceNames(services) == {services[i].service : i \in DOMAIN services}

\* The index at which a service name first appears in the services array.
FirstIndex(services, name) ==
    CHOOSE i \in DOMAIN services :
        /\ services[i].service = name
        /\ \A j \in 1..(i - 1) : services[j].service # name

\* C4: for a descriptor with services, createMiniflareOptions returns the
\* primary worker followed by exactly one worker per distinct service name, in
\* order of first appearance: 1 + (number of distinct service names) workers.
C4_OneWorkerPerDistinctService ==
    (Compiled /\ Has(config, "services")) =>
        LET names == ServiceNames(config.services)
        IN  /\ Len(Workers) = 1 + Cardinality(names)
            /\ Workers[1].name = "main"
            /\ \A n \in names :
                   \E i \in 2..Len(Workers) :
                       /\ Workers[i].name = n
                       /\ i - 1 = Cardinality({m \in names :
                                    FirstIndex(config.services, m) <=
                                    FirstIndex(config.services, n)})

\* C5: worker names are pairwise distinct in every worker sequence produced,
\* by createMiniflareOptions and after applyAssetRouterWorkaround, and exactly
\* one worker is named "main".
C5_WorkerNamesDistinct ==
    Produced =>
        /\ \A i, j \in DOMAIN Workers : i # j => Workers[i].name # Workers[j].name
        /\ Cardinality({i \in DOMAIN Workers : Workers[i].name = "main"}) = 1

\* C6: every value of every worker's serviceBindings names a worker of the
\* same sequence, after createMiniflareOptions and after the workaround.
C6_ServiceBindingsResolve ==
    Produced =>
        \A i \in DOMAIN Workers :
            Has(Workers[i], "serviceBindings") =>
                \A b \in DOMAIN Workers[i].serviceBindings :
                    Workers[i].serviceBindings[b] \in WorkerNames(Workers)

\* A synthesized sequence whose primary worker binds a service and the store.
C6_Witness ==
    /\ phase = "synthesized"
    /\ Has(config, "assets") /\ Has(config.assets, "binding")
    /\ Has(config, "services") /\ Len(config.services) = 2
    /\ Len(Workers) = 5
    /\ Cardinality(DOMAIN Workers[3].serviceBindings) >= 2

RecognizedPaths ==
    { <<"main">>, <<"compatibility_date">>, <<"compatibility_flags">>, <<"vars">>,
      <<"assets">>, <<"kv_namespaces">>, <<"r2_buckets">>, <<"d1_databases">>,
      <<"durable_objects", "bindings">>, <<"queues", "producers">>,
      <<"queues", "consumers">>, <<"services">>, <<"dev", "port">>,
      <<"dev", "hostname">> }

HasRecognizedKey(cfg) == \E path \in RecognizedPaths : getSourceArray(cfg, path).defined

\* C7: a descriptor with none of the recognized keys compiles to exactly
\* {workers: [{name: "main", modules: true, bindings: {}}]}.
C7_UnrecognizedOnly ==
    (Compiled /\ ~HasRecognizedKey(config)) =>
        miniflareOptions =
            [workers |-> <<[name |-> "main", modules |-> TRUE, bindings |-> EmptyObj]>>]

\* A compiled descriptor that carries unrecognized keys only.
C7_Witness ==
    /\ Compiled
    /\ ~HasRecognizedKey(config)
    /\ DOMAIN config = {"name", "durable_objects"}

\* C8: the worker of each service is named after it and has modules = true;
\* with a mock it carries exactly the mock's script/scriptPath, without one
\* the default stub, which answers 404 and differs from every mock script.
C8_ServiceWorkers ==
    (Compiled /\ Has(config, "services")) =>
        \A n \in ServiceNames(config.services) :
            /\ \E i \in 2..Len(Workers) : Workers[i].name = n
            /\ \A i \in 2..Len(Workers) :
                   Workers[i].name = n =>
                       LET w == Workers[i]
                       IN  /\ w.modules = TRUE
                           /\ IF Has(workerMocks, n)
                              THEN \A k \in {"script", "scriptPath"} :
                                       /\ Has(w, k) <=> Has(workerMocks[n], k)
                                       /\ Has(w, k) => w[k] = workerMocks[n][k]
                              ELSE /\ ~Has(w, "scriptPath")
                                   /\ Has(w, "script")
                                   /\ w.script.status = 404
                                   /\ \A m \in DOMAIN workerMocks :
                                          Has(workerMocks[m], "script") =>
                                              workerMocks[m].script # w.script

\* One service mocked by a script and one left to the default stub.
C8_Witness ==
    /\ Compiled
    /\ Has(config, "services")
    /\ ServiceNames(config.services) = {"svc1", "svc2"}
    /\ DOMAIN workerMocks = {"svc1"}
    /\ Has(workerMocks.svc1, "script")

\* C9: the primary worker's serviceBindings maps each entry's binding to its
\* service, the later entry winning for a repeated binding name; without
\* services the primary worker has no serviceBindings field.
C9_PrimaryServiceBindings ==
    Compiled =>
        IF Has(config, "services")
        THEN /\ Has(Workers[1], "serviceBindings")
             /\ DOMAIN Workers[1].serviceBindings =
                    {config.services[i].binding : i \in DOMAIN config.services}
             /\ \A i \in DOMAIN config.services :
                    (\A j \in (i + 1)..Len(config.services) :
                         config.services[j].binding # config.services[i].binding)
                    => Workers[1].serviceBindings[config.services[i].binding]
                           = config.services[i].service
        ELSE ~Has(Workers[1], "serviceBindings")

\* Two entries with the same binding name and different services.
C9_Witness ==
    /\ Compiled
    /\ Has(config, "services")
    /\ Len(config.services) = 2
    /\ config.services[1].binding = config.services[2].binding
    /\ config.services[1].service # config.services[2].service

\* C10: when workers[0] has assets, the workaround turns [w0, w1, ..., wn]
\* into [router, store, w0 without assets, w1, ..., wn].
C10_Step ==
    (phase = "compiled" /\ phase' = "synthesized" /\ Has(Workers[1], "assets")) =>
        LET before == Workers
            after == miniflareOptions'.workers
            kept == DOMAIN before[1] \ {"assets", "serviceBindings"}
        IN  /\ Len(after) = Len(before) + 2
            /\ after[1].name = "asset-router"
            /\ after[2].name = "asset-store"
            /\ after[2].sitePath = before[1].assets.directory
            /\ ~Has(after[3], "assets")
            /\ DOMAIN after[3] \ {"serviceBindings"} = kept
            /\ \A k \in kept : after[3][k] = before[1][k]
            /\ SubSeq(after, 4, Len(after)) = Tail(before)

C10_AssetSynthesis == [][C10_Step]_vars

\* A synthesized sequence that had auxiliary workers behind the primary one.
C10_Witness ==
    /\ phase = "synthesized"
    /\ Has(config, "assets")
    /\ Len(Workers) = 5
    /\ Workers[1].name = "asset-router"

-----------------------------------------------------------------------------
(* Properties of aegisSetup and aegisTeardown.                             *)

AllIdle == \A t \in Callers : pc[t] = "idle"

\* The last two calls of t were a successful aegisSetup and an aegisTeardown
\* that returned.
SetupThenTeardown(t) ==
    /\ pc[t] = "idle"
    /\ Len(hist[t]) >= 2
    /\ hist[t][Len(hist[t]) - 1].op = "setup"
    /\ hist[t][Len(hist[t]) - 1].err = "none"
    /\ hist[t][Len(hist[t])].op = "teardown"
    /\ hist[t][Len(hist[t])].err = "none"

C2_CwdRestoredSerial ==
    (~overlapped /\ inflight = <<>>) => cwd = InitCwd

\* A path-based setup that failed after its await, then one that failed at
\* the file extension, with no overlap.
C2_Witness ==
    /\ ~overlapped
    /\ AllIdle
    /\ \E t \in Callers :
           /\ Len(hist[t]) = 2
           /\ hist[t][1].path /\ hist[t][1].err = "bindings"
           /\ hist[t][2].path /\ hist[t][2].err = "extension"

\* C3 as stated: once two interleaved path-based aegisSetup calls have both
\* returned, the working directory is the one before either started.
C3_RestoredAfterInterleaving ==
    (overlapped /\ AllIdle) => cwd = InitCwd

\* The failure needs a call that returns before one started after it: when
\* path-based calls return in the reverse order of their starts, the working
\* directory is the initial one once all have returned.
CwdRestoredWhenNested ==
    (nested /\ inflight = <<>>) => cwd = InitCwd

-----------------------------------------------------------------------------
(* Further properties of the compiler and the workaround.                  *)

\* C11: applyAssetRouterWorkaround changes nothing when workers[0] has no
\* assets field; in particular a second application to a synthesized
\* sequence leaves its length and every worker unchanged.
C11_Step ==
    (/\ phase \in {"compiled", "synthesized"}
     /\ phase' \in {"synthesized", "resynthesized"}
     /\ ~Has(Workers[1], "assets"))
        => miniflareOptions' = miniflareOptions
C11_NoAssetsNoOp ==
    [][C11_Step /\ (phase' = "resynthesized" => miniflareOptions' = miniflareOptions)]_vars

\* The workaround was applied twice to a descriptor with assets.
C11_Witness ==
    /\ phase = "resynthesized"
    /\ Has(config, "assets")
    /\ Len(Workers) >= 3
    /\ Workers[1].name = routerName

\* The topology is the synthesized one and it has served a request.
Routed ==
    /\ exchange # EmptyObj
    /\ Workers[1].name = routerName

\* C12: in the synthesized topology the router gets the request first and
\* calls the asset store; the primary worker is called only after the store
\* answered 404, with the original request; the caller gets the store's
\* response when its status is not 404 and the primary worker's otherwise.
C12_RouterFirst ==
    Routed =>
        LET calls == exchange.calls
        IN  /\ Len(calls) \in {2, 3}
            /\ calls[1].worker = routerName
            /\ calls[1].request = exchange.request
            /\ calls[2].worker = storeName
            /\ calls[2].request = exchange.request
            /\ Len(calls) = 3 <=> calls[2].response.status = 404
            /\ Len(calls) = 3 =>
                   /\ calls[3].worker = "main"
                   /\ calls[3].request = exchange.request
                   /\ exchange.response = calls[3].response
            /\ Len(calls) = 2 => exchange.response = calls[2].response

\* A path that is both an asset and a route of the worker: the asset wins.
C12_Witness ==
    /\ Routed
    /\ exchange.request.path = "both.txt"
    /\ exchange.response.status = 200
    /\ exchange.response.by = storeName
    /\ Has(Workers[3], "scriptPath")

\* C13: after the workaround the router's serviceBindings are exactly
\* {USER_WORKER: name of the primary worker, ASSET_STORE: "asset-store"};
\* the primary worker's serviceBindings gain the asset binding name, bound
\* to "asset-store", exactly when the asset config named a binding, and
\* are otherwise as they were.
C13_Step ==
    (phase = "compiled" /\ phase' = "synthesized" /\ Has(Workers[1], "assets")) =>
        LET before == Workers[1]
            router == miniflareOptions'.workers[1]
            after == miniflareOptions'.workers[3]
            old == IF Has(before, "serviceBindings")
                   THEN before.serviceBindings ELSE EmptyObj
        IN  /\ router.serviceBindings =
                   [USER_WORKER |-> before.name, ASSET_STORE |-> "asset-store"]
            /\ IF Has(before.assets, "binding")
               THEN /\ Has(after, "serviceBindings")
                    /\ DOMAIN after.serviceBindings =
                           DOMAIN old \cup {before.assets.binding}
                    /\ after.serviceBindings[before.assets.binding] = "asset-store"
                    /\ \A k \in DOMAIN old \ {before.assets.binding} :
                           after.serviceBindings[k] = old[k]
               ELSE /\ Has(after, "serviceBindings") <=> Has(before, "serviceBindings")
                    /\ Has(after, "serviceBindings") =>
                           after.serviceBindings = before.serviceBindings

C13_ServiceBindingsWiring == [][C13_Step]_vars

\* The asset config named the binding ASSETS and the descriptor had services.
C13_Witness ==
    /\ phase = "synthesized"
    /\ Has(config, "assets") /\ Has(config.assets, "binding")
    /\ Has(config, "services") /\ config.services # <<>>
    /\ Workers[1].name = routerName
    /\ Workers[3].serviceBindings[config.assets.binding] = storeName

\* The worker named "main" of the configuration produced.
Main == Workers[FindMain(Workers)]

\* C14: host is present iff port is, both exactly when the descriptor has
\* dev.port; port is dev.port, host is dev.hostname when one is given (a
\* non-empty string) and "127.0.0.1" otherwise; no worker carries either.
C14_HostAndPort ==
    Produced =>
        LET hasPort == Has(config, "dev") /\ Has(config.dev, "port")
        IN  /\ Has(miniflareOptions, "host") <=> Has(miniflareOptions, "port")
            /\ Has(miniflareOptions, "port") <=> hasPort
            /\ hasPort =>
                   /\ miniflareOptions.port = config.dev.port
                   /\ miniflareOptions.host =
                          IF Has(config.dev, "hostname") /\ config.dev.hostname # ""
                          THEN config.dev.hostname ELSE "127.0.0.1"
            /\ \A i \in DOMAIN Workers :
                   ~Has(Workers[i], "host") /\ ~Has(Workers[i], "port")

\* A descriptor with dev.port and dev.hostname, compiled.
C14_Witness ==
    /\ Compiled
    /\ Has(config, "dev")
    /\ Has(config.dev, "port") /\ Has(config.dev, "hostname")
    /\ miniflareOptions.host = "0.0.0.0"
    /\ miniflareOptions.port = 8787

C16_NameLists ==
    Produced =>
        \A r \in DOMAIN arrayMappings :
            LET mapping == arrayMappings[r]
                nonEmpty == Has(config, mapping.source) /\ config[mapping.source] # <<>>
            IN  /\ Has(Main, mapping.target) <=> nonEmpty
                /\ nonEmpty =>
                       /\ Len(Main[mapping.target]) = Len(config[mapping.source])
                       /\ \A j \in DOMAIN config[mapping.source] :
                              Main[mapping.target][j] = config[mapping.source][j].binding

\* C17: each keyed-object rule is skipped when a segment of its source path
\* is absent; otherwise its target maps each element's key field to its
\* value field (to {} for queue consumers), the later element winning when
\* two elements have the same key.
C17_KeyedObjects ==
    Produced =>
        \A r \in DOMAIN objectMappings :
            LET mapping == objectMappings[r]
                path == mapping.source
                present ==
                    /\ Has(config, path[1])
                    /\ Len(path) = 2 => Has(config[path[1]], path[2])
                source == IF Len(path) = 1 THEN config[path[1]]
                          ELSE config[path[1]][path[2]]
                ValueOf(item) == IF mapping.target = "queueConsumers" THEN EmptyObj
                                 ELSE item[mapping.value]
            IN  /\ Has(Main, mapping.target) <=> present
                /\ present =>
                       /\ DOMAIN Main[mapping.target] =
                              {source[j][mapping.key] : j \in DOMAIN source}
                       /\ \A j \in DOMAIN source :
                              (\A k \in (j + 1)..Len(source) :
                                   source[k][mapping.key] # source[j][mapping.key])
                                  => Main[mapping.target][source[j][mapping.key]] =
                                         ValueOf(source[j])

\* Two d1_databases entries with the same binding: the second one's id wins.
C17_Witness ==
    /\ Compiled
    /\ Has(config, "d1_databases")
    /\ Len(config.d1_databases) = 2
    /\ config.d1_databases[1].database_id = "d1"
    /\ config.d1_databases[2].database_id = "d2"
    /\ Main.d1Databases = [DB |-> "d2"]

-----------------------------------------------------------------------------
(* Further properties of aegisSetup and aegisTeardown.                     *)

\* The last call of t was an aegisTeardown and came after no call at all,
\* after another aegisTeardown, or after an aegisSetup that threw.
TeardownWithoutSetup(t) ==
    /\ pc[t] = "idle"
    /\ Len(hist[t]) >= 1
    /\ hist[t][Len(hist[t])].op = "teardown"
    /\ \/ Len(hist[t]) = 1
       \/ hist[t][Len(hist[t]) - 1].op = "teardown"
       \/ hist[t][Len(hist[t]) - 1].err # "none"

\* C18: aegisTeardown does not throw and leaves the context without worker,
\* env, fetch, isServerListening and serverBaseUrl when setup was never
\* called, when teardown was already called, and when setup failed part-way.
C18_TeardownTolerant ==
    \A t \in Callers :
        TeardownWithoutSetup(t) =>
            /\ hist[t][Len(hist[t])].err = "none"
            /\ DOMAIN ctx[t] \cap {"worker", "env", "fetch", "isServerListening",
                                  "serverBaseUrl"} = {}

\* The aegisSetup calls of t that got as far as a simulator instance.
Instantiations(t) ==
    Cardinality({i \in DOMAIN hist[t] :
                    hist[t][i].op = "setup" /\ hist[t][i].raised \in {"none", "bindings"}})
    + (IF pc[t] = "setupAwait" THEN 1 ELSE 0)

MainOf(workers) == workers[FindMain(workers)]

\* C20: the options the simulator is instantiated with have a main worker
\* with a script or a scriptPath: the compiled main worker plus the no-op
\* stub script when it had neither, the compiled main worker unchanged and
\* without script when the descriptor supplied main.
C20_MainHasScript ==
    \A t \in Callers :
        pc[t] = "setupAwait" =>
            LET compiled == MainOf(createMiniflareOptions(frame[t].config, EmptyObj).workers)
                given == MainOf(frame[t].options.workers)
                Absent(w, k) == k \notin DOMAIN w \/ w[k] = Null
            IN  /\ ~Absent(given, "script") \/ ~Absent(given, "scriptPath")
                /\ IF Absent(compiled, "script") /\ Absent(compiled, "scriptPath")
                   THEN given = Put(compiled, "script", NoopScript)
                   ELSE given = compiled /\ ~Has(given, "script")

\* One call suspended with a descriptor that supplied main, another with
\* the empty descriptor, back-filled.
C20_Witness ==
    /\ pc["t1"] = "setupAwait"
    /\ Has(frame["t1"].config, "main")
    /\ frame["t1"].config.main = MainPath
    /\ MainOf(frame["t1"].options.workers).scriptPath = MainPath
    /\ pc["t2"] = "setupAwait"
    /\ frame["t2"].config = EmptyObj
    /\ MainOf(frame["t2"].options.workers).script = NoopScript

\* The most recent call of t was an aegisSetup that returned.
SetupSucceededLast(t) ==
    /\ pc[t] = "idle"
    /\ hist[t] # <<>>
    /\ hist[t][Len(hist[t])].op = "setup"
    /\ hist[t][Len(hist[t])].err = "none"

\* C21: whenever the most recent call on a context was a successful
\* aegisSetup, ctx.isServerListening is true exactly when the compiled
\* configuration has a port, and ctx.serverBaseUrl is defined exactly when
\* ctx.isServerListening is true, and is then "http://<host>:<port>".
C21_ListeningState ==
    \A t \in Callers :
        SetupSucceededLast(t) =>
            LET options == lastOptions[t]
            IN  /\ ctx[t].isServerListening = Has(options, "port")
                /\ Has(ctx[t], "serverBaseUrl") <=> ctx[t].isServerListening
                /\ ctx[t].isServerListening =>
                       ctx[t].serverBaseUrl =
                           <<"http://", options.host, ":", options.port>>

\* C22: a successful aegisSetup installs ctx.fetch, port or no port; called
\* while no port is configured it answers the fixed 503 and sends nothing;
\* called while a port is configured it sends a request to the argument
\* itself when that is a full URL, and to the argument resolved against
\* ctx.serverBaseUrl when it is a path fragment.
C22_WrappedFetch ==
    /\ \A t \in Callers : SetupSucceededLast(t) => Has(ctx[t], "fetch")
    /\ (fetched # EmptyObj /\ SetupSucceededLast(fetched.caller)) =>
           LET url == fetched.url
               fullUrl == Len(url) >= 2 /\ url[1] = "http" /\ url[2] = "://"
               base == ctx[fetched.caller].serverBaseUrl
           IN  IF Has(lastOptions[fetched.caller], "port")
               THEN fetched.result =
                        [request |-> IF fullUrl THEN url ELSE NewURL(url, base)]
               ELSE fetched.result =
                        [response |-> [status |-> 503,
                                       statusText |-> "Service Unavailable"]]

-----------------------------------------------------------------------------
(* Properties of createMiniflareOptions as a function.                     *)

\* C23: createMiniflareOptions does not throw for any descriptor, whatever
\* optional keys are present or absent and whether or not the services have
\* mocks; it returns a configuration in which a key absent from the
\* descriptor has set nothing.
C23_NeverThrows ==
    /\ phase # "threw"
    /\ Compiled =>
           /\ Has(miniflareOptions, "workers")
           /\ Len(Workers) >= 1
           /\ Workers[1].name = "main"
           /\ \A r \in DOMAIN keyMappings :
                  ~Has(config, keyMappings[r].source) => ~Has(Main, keyMappings[r].target)
           /\ \A r \in DOMAIN arrayMappings :
                  ~Has(config, arrayMappings[r].source) => ~Has(Main, arrayMappings[r].target)
           /\ \A r \in DOMAIN objectMappings :
                  ~Has(config, objectMappings[r].source[1]) =>
                      ~Has(Main, objectMappings[r].target)
           /\ ~Has(config, "assets") => ~Has(Main, "assets")
           /\ ~Has(config, "services") =>
                  ~Has(Main, "serviceBindings") /\ Len(Workers) = 1
           /\ ~Has(config, "dev") => DOMAIN miniflareOptions = {"workers"}

\* A descriptor with queues but no consumers, and a mock registry, compiled.
C23_Witness ==
    /\ Compiled
    /\ Has(config, "queues")
    /\ ~Has(config.queues, "consumers")
    /\ workerMocks # EmptyObj
    /\ Has(Main, "queueProducers")

\* C24: createMiniflareOptions leaves the descriptor and the mock registry
\* as they were, and a second call with the same inputs returns a
\* configuration equal to the first.
C24_Step ==
    /\ (phase = "input" /\ phase' = "compiled") =>
           config' = config /\ workerMocks' = workerMocks
    /\ (phase = "compiled" /\ phase' = "twice") =>
           /\ config' = config /\ workerMocks' = workerMocks
           /\ other' = miniflareOptions

C25_Step ==
    (phase = "twice" /\ phase' = "mutated") =>
        /\ other' = other
        /\ staticValue' = staticValue
        /\ createMiniflareOptions(config, workerMocks)' =
               createMiniflareOptions(config, workerMocks)

C25_FreshResults == [][C25_Step]_vars

-----------------------------------------------------------------------------
(* Properties of the asset store's script                                  *)

\* The call of the asset store in the exchange of a routed request.
StoreCall == exchange.calls[2]

\* The request was routed and the name of the store belongs to the
\* synthesized store alone, so that it is the store's script that answered.
StoreAnswered ==
    /\ Routed
    /\ \A i \in Resolve(Workers, storeName) :
           Has(Workers[i], "script") /\ Workers[i].script = storeScript

\* The manifest entry a path resolves to by the stated precedence, as a set:
\* the exact path, else the index file of the folder.
Resolved(path) ==
    IF path \in Manifest THEN {path}
    ELSE IF path = "" \/ EndsWith(path, "/")
    THEN {path \o "index.html"} \cap Manifest
    ELSE {path \o "/index.html"} \cap Manifest

\* C26: the store resolves a path exact match first, then the index file
\* (path + 'index.html' for an empty path or one ending in '/', else
\* path + '/index.html'); it answers 200 exactly when an entry was found
\* and the content store holds its value, with that value as the body, and
\* 404 otherwise; an exact match is never replaced by an index file.
C26_StorePrecedence ==
    StoreAnswered =>
        LET path == StoreCall.request.path
            response == StoreCall.response
            held == {p \in Resolved(path) : manifest[p] \in DOMAIN StaticContent}
        IN  /\ StoreCall.worker = storeName
            /\ response.status \in {200, 404}
            /\ response.status = 200 <=> held # {}
            /\ response.status = 200 =>
                   \E p \in held : response.body = StaticContent[manifest[p]]
            /\ (path \in Manifest /\ response.status = 200) =>
                   response.body = StaticContent[manifest[path]]

\* A folder path with its trailing slash is answered with the folder's
\* index file.
C26_Witness ==
    /\ StoreAnswered
    /\ StoreCall.request.path = "docs/"
    /\ StoreCall.response.status = 200
    /\ StoreCall.response.body = StaticContent[manifest["docs/index.html"]]

-----------------------------------------------------------------------------
(* Further properties of applyAssetRouterWorkaround                        *)

\* C27: the workaround copies compatibilityDate and compatibilityFlags from
\* the primary worker onto the router and onto the store, each field on its
\* own and exactly when the primary worker has it.
C27_Step ==
    (phase = "compiled" /\ phase' = "synthesized" /\ Has(Workers[1], "assets")) =>
        LET before == Workers[1]
            router == miniflareOptions'.workers[1]
            store == miniflareOptions'.workers[2]
        IN  \A f \in {"compatibilityDate", "compatibilityFlags"} :
                \A w \in {router, store} :
                    /\ Has(w, f) <=> Has(before, f)
                    /\ Has(w, f) => w[f] = before[f]

C27_CompatibilityMirrored == [][C27_Step]_vars

\* The primary worker had a compatibility date and no flags, and so have
\* the router and the store.
C27_Witness ==
    /\ phase = "synthesized"
    /\ Workers[1].name = routerName /\ Workers[2].name = storeName
    /\ Has(config, "compatibility_date") /\ ~Has(config, "compatibility_flags")
    /\ Workers[1].compatibilityDate = config.compatibility_date
    /\ Workers[2].compatibilityDate = config.compatibility_date
    /\ ~Has(Workers[1], "compatibilityFlags")
    /\ ~Has(Workers[2], "compatibilityFlags")

\* The workers a worker's serviceBindings lead to, by position.
Bound(ws, i) ==
    IF Has(ws[i], "serviceBindings")
    THEN {j \in DOMAIN ws : ws[j].name \in Range(ws[i].serviceBindings)}
    ELSE {}

\* The workers reachable from a set of workers in one call or more, found
\* in at most `n` rounds.
RECURSIVE Reach(_, _, _)
Reach(ws, from, n) ==
    LET next == from \cup UNION {Bound(ws, j) : j \in from}
    IN  IF n = 0 \/ next = from THEN from ELSE Reach(ws, next, n - 1)

Acyclic(ws) ==
    \A i \in DOMAIN ws : i \notin Reach(ws, Bound(ws, i), Len(ws))

\* The descriptor names no service "main", "asset-router" or "asset-store",
\* and no mock declares service bindings.
NoReservedNames ==
    /\ Has(config, "services") =>
           ServiceNames(config.services) \cap {"main", routerName, storeName} = {}
    /\ \A m \in DOMAIN workerMocks : ~Has(workerMocks[m], "serviceBindings")

\* C28: for a descriptor whose services are none of "main", "asset-router",
\* "asset-store" and whose mocks declare no service bindings, the graph of
\* serviceBindings of the configuration produced by the compiler and the
\* workaround has no cycle.
C28_NoRequestLoop ==
    (Produced /\ NoReservedNames) => Acyclic(Workers)

\* A synthesized configuration with calls two deep: the router calls the
\* primary worker, which calls the store and a service.
C28_Witness ==
    /\ phase = "synthesized"
    /\ NoReservedNames
    /\ Workers[1].name = routerName
    /\ Has(config, "services") /\ config.services # <<>>
    /\ Has(config.assets, "binding")
    /\ Cardinality(Reach(Workers, Bound(Workers, 1), Len(Workers))) >= 3
    /\ Acyclic(Workers)

\* The serviceBindings of a worker, {} when it has none.
BindingsIn(worker) ==
    IF Has(worker, "serviceBindings") THEN worker.serviceBindings ELSE EmptyObj

\* C29: the workaround changes nothing but what it must.  On the primary
\* worker the assets field goes and at most one serviceBindings entry, the
\* one of the asset binding name, is added or overwritten; every other
\* field and every other serviceBindings entry is as it was; the workers
\* after the primary one and the rest of the configuration are as they were.
C29_Step ==
    (phase = "compiled" /\ phase' = "synthesized") =>
        LET before == Workers[1]
            at == IF Has(before, "assets") THEN 3 ELSE 1
            after == miniflareOptions'.workers[at]
            old == BindingsIn(before)
            new == BindingsIn(after)
            touched == {k \in DOMAIN old \cup DOMAIN new :
                            ~(k \in DOMAIN old /\ k \in DOMAIN new /\ old[k] = new[k])}
        IN  /\ ~Has(after, "assets")
            /\ DOMAIN after \subseteq DOMAIN before \cup {"serviceBindings"}
            /\ \A k \in DOMAIN before \ {"assets", "serviceBindings"} :
                   Has(after, k) /\ after[k] = before[k]
            /\ DOMAIN old \subseteq DOMAIN new
            /\ Cardinality(touched) <= 1
            /\ touched # {} =>
                   /\ Has(before, "assets") /\ Has(before.assets, "binding")
                   /\ touched = {before.assets.binding}
            /\ Has(after, "serviceBindings") =>
                   Has(before, "serviceBindings") \/ touched # {}
            /\ SubSeq(miniflareOptions'.workers, at + 1,
                      Len(miniflareOptions'.workers)) = Tail(Workers)
            /\ [miniflareOptions' EXCEPT !.workers = Workers] = miniflareOptions

C29_WorkaroundFrame == [][C29_Step]_vars

\* The primary worker had service bindings, one of which the asset binding
\* overwrote; the service's worker behind it is still there.
C29_Witness ==
    /\ phase = "synthesized"
    /\ Workers[1].name = routerName
    /\ Has(config.assets, "binding")
    /\ Has(config, "services") /\ Len(config.services) >= 1
    /\ config.assets.binding \in {config.services[i].binding : i \in DOMAIN config.services}
    /\ Workers[3].serviceBindings[config.assets.binding] = storeName
    /\ Len(Workers) >= 4
    /\ Workers[4].name \in ServiceNames(config.services)

-----------------------------------------------------------------------------
(* Miniflare instances over the calls on a context                         *)

\* The calls completed on the context of t alternate: no aegisSetup came
\* directly after another aegisSetup.
Alternating(t) ==
    \A i \in 1..(Len(hist[t]) - 1) :
        ~(hist[t][i].op = "setup" /\ hist[t][i + 1].op = "setup")

\* The last call completed on the context of t was an aegisTeardown.
TeardownLast(t) ==
    /\ pc[t] = "idle"
    /\ hist[t] # <<>>
    /\ hist[t][Len(hist[t])].op = "teardown"

\* The instances made by the calls of t.
MadeBy(t) == {id \in DOMAIN made : made[id].by = t}

\* A step of an aegisSetup call: its start, or its return or throw.
SetupStep ==
    \E t \in Callers :
        \/ pc[t] # pc'[t] /\ "setupAwait" \in {pc[t], pc'[t]}
        \/ /\ Len(hist'[t]) > Len(hist[t])
           /\ hist'[t][Len(hist'[t])].op = "setup"

\* C30: when the calls on a context alternate, every aegisSetup (returned
\* or thrown) being followed by an aegisTeardown before the next
\* aegisSetup, every instance made for the context has had dispose() called
\* exactly once and none is live after the last aegisTeardown; and a step
\* of aegisSetup calls dispose() on no instance and ends none.
C30_NoInstanceLeak ==
    /\ [](\A t \in Callers :
              (Alternating(t) /\ TeardownLast(t)) =>
                  \A id \in MadeBy(t) :
                      id \notin live /\ made[id].disposals = 1)
    /\ [][SetupStep =>
              /\ live \subseteq live'
              /\ \A id \in DOMAIN made : made'[id] = made[id]]_vars

====
